---- MODULE Spec2Model ----
(***************************************************************************)
(* headers_analyzer.py: the response-equivalence and header-minimization  *)
(* engine.  A run takes a captured request, fetches a reference response, *)
(* samples MINIMAL_RESP_CHECK_N repeated responses to derive the          *)
(* reference ratio (the equivalence threshold), then probes the endpoint  *)
(* with one header removed at a time (check_removed_headers) and with     *)
(* every catalogued user-agent substituted (check_other_uas).             *)
(*                                                                         *)
(* Representation.                                                         *)
(*  - A response text is a record [text, fill]: the characters of `text`  *)
(*    followed by `fill` copies of the filler character "z".  The model   *)
(*    only uses texts with fill = 0 (short explicit texts over "a", "b")  *)
(*    or text = <<>> (a uniform run), so that texts above the 10000       *)
(*    character size check are values TLC can hold.                       *)
(*  - A ratio is a fraction [n, d]; d = 0 stands for the ZeroDivisionError*)
(*    that Python raises.  Rounded ratios are integers in thousandths     *)
(*    (round(x, DIST_ROUND_PRECISION)).                                    *)
(*  - A dict is a sequence of <<key, value>> pairs in insertion order.     *)
(***************************************************************************)
EXTENDS Integers, Sequences, FiniteSets, TLC

\* ------------------------------------------------------------------ bounds
\* Number of the repeated baseline responses that may differ from the reference
\* response.
MaxJitter == 2
\* Number of user-agent probes the endpoint may answer with a response that
\* differs from the reference response.
MaxBlocked == 1

\* ------------------------------------------------------- program constants
MINIMAL_RESP_CHECK_N == 10
DIST_ROUND_PRECISION == 3
\* the literal of `len(responses[0].response.text) > 10000`
SIZE_THRESHOLD == 10000

Min(x, y) == IF x <= y THEN x ELSE y
Max(x, y) == IF x >= y THEN x ELSE y

RECURSIVE Pow10(_)
Pow10(k) == IF k = 0 THEN 1 ELSE 10 * Pow10(k - 1)

\* ------------------------------------------------------------------- texts
Txt(s) == [text |-> s, fill |-> 0]
Run(n) == [text |-> <<>>, fill |-> n]

\* len(text)
TextLen(t) == Len(t.text) + t.fill

\* `needle in text` for a needle over "a", "b" (str.__contains__)
Contains(t, needle) ==
    \E i \in 1..(Len(t.text) + 1) :
        /\ i + Len(needle) - 1 <= Len(t.text)
        /\ SubSeq(t.text, i, i + Len(needle) - 1) = needle

\* ----------------------------------------------------------------- metrics
\* length_ratio(a, b): min(a_len, b_len) / max(a_len, b_len); the division
\* raises ZeroDivisionError (d = 0) when both texts are empty.
length_ratio(a, b) ==
    LET a_len == TextLen(a.response.text)
        b_len == TextLen(b.response.text)
    IN  [n |-> Min(a_len, b_len), d |-> Max(a_len, b_len)]

\* difflib.SequenceMatcher.find_longest_match on whole sequences without junk:
\* the longest common block; of those the one starting earliest in a, then
\* earliest in b.  k = 0 when there is none.
find_longest_match(a, b) ==
    LET blocks == {blk \in (1..Len(a)) \X (1..Len(b)) \X (1..Min(Len(a), Len(b))) :
                     /\ blk[1] + blk[3] - 1 <= Len(a)
                     /\ blk[2] + blk[3] - 1 <= Len(b)
                     /\ SubSeq(a, blk[1], blk[1] + blk[3] - 1)
                          = SubSeq(b, blk[2], blk[2] + blk[3] - 1)}
    IN  IF blocks = {} THEN <<1, 1, 0>>
        ELSE CHOOSE blk \in blocks :
               \A o \in blocks :
                  \/ blk[3] > o[3]
                  \/ blk[3] = o[3] /\ blk[1] < o[1]
                  \/ blk[3] = o[3] /\ blk[1] = o[1] /\ blk[2] <= o[2]

\* SequenceMatcher.get_matching_blocks: the sum of the sizes of the blocks found
\* by recursing to the left and to the right of the longest match.
RECURSIVE matching_size(_, _)
matching_size(a, b) ==
    IF a = <<>> \/ b = <<>> THEN 0
    ELSE LET blk == find_longest_match(a, b)
         IN  IF blk[3] = 0 THEN 0
             ELSE blk[3]
                  + matching_size(SubSeq(a, 1, blk[1] - 1), SubSeq(b, 1, blk[2] - 1))
                  + matching_size(SubSeq(a, blk[1] + blk[3], Len(a)),
                                  SubSeq(b, blk[2] + blk[3], Len(b)))

\* Matched characters of two texts.  Two uniform runs of the filler match on
\* the shorter one (with the filler "popular" in b, find_longest_match finds no
\* seed and extends the empty match from the start of both); an explicit text
\* over "a", "b" shares no character with a run.
Matches(ta, tb) ==
    IF ta.fill = 0 /\ tb.fill = 0 THEN matching_size(ta.text, tb.text)
    ELSE IF ta.text = <<>> /\ tb.text = <<>> THEN Min(ta.fill, tb.fill)
    ELSE 0

\* difflib_ratio(a, b): SequenceMatcher(a=a_text, b=b_text).ratio(), which is
\* 2.0 * matches / (len(a) + len(b)), and 1.0 when both are empty.
difflib_ratio(a, b) ==
    LET a_text == a.response.text
        b_text == b.response.text
        total == TextLen(a_text) + TextLen(b_text)
    IN  IF total = 0 THEN [n |-> 1, d |-> 1]
        ELSE [n |-> 2 * Matches(a_text, b_text), d |-> total]

Raised(q) == q.d = 0

\* q1 < q2 on fractions
FracLess(q1, q2) == q1.n * q2.d < q2.n * q1.d

\* round(q, DIST_ROUND_PRECISION), in units of 10^-DIST_ROUND_PRECISION
\* (round-half-even; no fraction of the model is an exact tie).
Round3(q) ==
    LET s == Pow10(DIST_ROUND_PRECISION)
        k == (s * q.n) \div q.d
        r == (s * q.n) % q.d
    IN  IF 2 * r < q.d THEN k
        ELSE IF 2 * r > q.d THEN k + 1
        ELSE IF k % 2 = 0 THEN k ELSE k + 1

\* dist_fun(a, b) for the function object held in distance_fun / dist_fun
Dist(fun, a, b) ==
    IF fun = "length_ratio" THEN length_ratio(a, b) ELSE difflib_ratio(a, b)


\* ------------------------------------------------------------------- dicts
Keys(d) == [i \in 1..Len(d) |-> d[i][1]]
KeySet(d) == {d[i][1] : i \in 1..Len(d)}
Get(d, k) == d[CHOOSE i \in 1..Len(d) : d[i][1] = k][2]

\* d[k] = v: the value is replaced in place, a new key is appended
DictSet(d, k, v) ==
    IF k \in KeySet(d)
    THEN [i \in 1..Len(d) |-> IF d[i][1] = k THEN <<k, v>> ELSE d[i]]
    ELSE Append(d, <<k, v>>)

RECURSIVE Filter(_, _)
Filter(d, keep) ==
    IF d = <<>> THEN <<>>
    ELSE IF Head(d)[1] \in keep THEN <<Head(d)>> \o Filter(Tail(d), keep)
    ELSE Filter(Tail(d), keep)

\* del d[k]
DictDel(d, k) == Filter(d, KeySet(d) \ {k})

\* str.lower on the header names of the model
lower(name) == IF name = "User-Agent" THEN "user-agent" ELSE name

\* ----------------------------------------------------------------- catalog
UAS0 ==
    << <<"modern ua", "Mozilla/5.0 (Macintosh; Intel Mac OS X 10_15_6) AppleWebKit/537.36 (KHTML, like Gecko) Chrome/87.0.4280.141 Safari/537.36">>,
       <<"modern mobile ua", "Mozilla/5.0 (iPhone; CPU iPhone OS 10_3_1 like Mac OS X) AppleWebKit/603.1.30 (KHTML, like Gecko) Version/10.0 Mobile/14E304 Safari/602.1">>,
       <<"old ua", "Mozilla/5.0 (X11; U; Linux i686; en-US; rv:1.9a1) Gecko/20060814 Firefox/51.0">>,
       <<"ie", "Mozilla/4.0 (compatible; MSIE 9.0; Windows NT 6.0)">>,
       <<"python-requests", "python-requests/2.2.1 CPython/2.7.5 Darwin/13.1.0">>,
       <<"curl", "curl/7.55.1">>,
       <<"fb", "facebookexternalhit/1.1">>,
       <<"google media", "Mediapartners-Google">>,
       <<"googlebot desktop", "Mozilla/5.0 (compatible; Googlebot/2.1; +http://www.google.com/bot.html)">>,
       <<"adsbot google mobile", "Mozilla/5.0 (Linux; Android 5.0; SM-G920A) AppleWebKit (KHTML, like Gecko) Chrome Mobile Safari (compatible; AdsBot-Google-Mobile; +http://www.google.com/mobile/adsbot.html)">>,
       <<"yandex cralwer", "Mozilla/5.0 (compatible; YandexBot/3.0; +http://yandex.com/bots)">>,
       <<"yandex metrica", "Mozilla/5.0 (compatible; YandexMetrika/4.0; +http://yandex.com/bots)">>,
       <<"whatsapp", "WhatsApp/2.19.81 A">>,
       <<"twitter", "Twitterbot/1.0">> >>

\* ------------------------------------------------------------------ inputs
\* req_json['headers'] of the captured request files of the model
CapturedUA == "Mozilla/5.0 (X11; Linux x86_64) captured"
InputHeaders ==
    { << <<"accept", "*/*">>, <<"User-Agent", CapturedUA>> >>,
      << <<"user-agent", CapturedUA>>, <<"accept-language", "fr">> >>,
      << <<"accept", "*/*">>, <<"cookie", "sid=1">> >> }

\* what the user types at 'Enter text you expected will be in response: '
TypedTexts == {<<>>, <<"a">>}

\* expected_text: None, or a str
None == [none |-> TRUE, text |-> <<>>]
Str(s) == [none |-> FALSE, text |-> s]
\* Python truth value of expected_text
Truthy(e) == ~e.none /\ e.text # <<>>

\* the responses the endpoint gives (requests.models.Response: status, text)
Response(code, t) == [status_code |-> code, text |-> t]
Replies ==
    { Response(200, Txt(<<"a", "b">>)),
      Response(200, Txt(<<"a">>)),
      Response(200, Run(SIZE_THRESHOLD + 1)),
      Response(403, Txt(<<>>)) }

\* class ResponseResult
ResponseResult(resp, req_h) == [response |-> resp, req_headers |-> req_h]
NoResponse == Response(0, Txt(<<>>))
NoResult == ResponseResult(NoResponse, <<>>)

\* ------------------------------------------------------------ make_request
\* is_anomaly = distance < ratio
BelowRatio(distance, ratio) == distance < ratio

\* is_expected_text_present = expected_text and expected_text in r.text
\* (the value is expected_text itself when that is falsy)
is_expected_text_present(expected_text, r) ==
    IF expected_text.none THEN "None"
    ELSE IF expected_text.text = <<>> THEN "''"
    ELSE IF Contains(r.text, expected_text.text) THEN "True" ELSE "False"

\* is_anomaly or (not is_expected_text_present and EXPECTED_TEXT_ANOMALY)
AnomalyFlag(is_anomaly, present, policy) ==
    is_anomaly \/ (present # "True" /\ policy)

\* make_request(req_fun, dist_fun, headers, ratio, ref, expected_text, key),
\* with r the response req_fun(headers) gave and policy the module's
\* EXPECTED_TEXT_ANOMALY.  raised: dist_fun raised and nothing is returned.
make_request(r, dist_fun, headers, ratio, ref, expected_text, key, policy) ==
    LET key_resp == ResponseResult(r, headers)
        raw == Dist(dist_fun, ref, key_resp)
    IN  IF Raised(raw)
        THEN [raised |-> TRUE, key |-> key, headers |-> headers, r |-> r,
              raw |-> raw, ratio |-> ratio, is_anomaly |-> FALSE,
              data |-> [code |-> r.status_code, len |-> TextLen(r.text), diff |-> 0,
                        is_anomaly |-> FALSE, resp |-> key_resp,
                        is_present_text |-> "None"]]
        ELSE LET distance == Round3(raw)
                 present == is_expected_text_present(expected_text, r)
             IN  [raised |-> FALSE, key |-> key, headers |-> headers, r |-> r,
                  raw |-> raw, ratio |-> ratio,
                  is_anomaly |-> AnomalyFlag(BelowRatio(distance, ratio), present, policy),
                  data |-> [code |-> r.status_code, len |-> TextLen(r.text),
                            diff |-> distance,
                            is_anomaly |-> BelowRatio(distance, ratio),
                            resp |-> key_resp,
                            is_present_text |-> present]]

\* ---------------------------------------------------- check_removed_headers
\* mutant of HeadersWithout: the keys already probed stay removed (a shrinking
\* accumulator)
HeadersWithoutShrinking(headers, key) ==
    LET at == CHOOSE k \in 1..Len(headers) : headers[k][1] = key
    IN  SubSeq(headers, at + 1, Len(headers))

\* headers_copy = {k:v for k,v in headers.items() if k != key}
HeadersWithout(headers, key) == Filter(headers, KeySet(headers) \ {key})

\* mutant of RecordRemoval: the branches of `if is_anomaly` swapped
RecordRemovalSwapped(acc, key, is_anomaly, data) ==
    IF ~is_anomaly
    THEN [res |-> DictSet(acc.res, key, data), keys_to_del |-> acc.keys_to_del]
    ELSE [res |-> acc.res, keys_to_del |-> Append(acc.keys_to_del, key)]

\* if is_anomaly: res[key] = data / else: keys_to_del.append(key)
RecordRemoval(acc, key, is_anomaly, data) ==
    IF is_anomaly
    THEN [res |-> DictSet(acc.res, key, data), keys_to_del |-> acc.keys_to_del]
    ELSE [res |-> acc.res, keys_to_del |-> Append(acc.keys_to_del, key)]

\* mutant of DelKeys: the loop stops after the first key
DelKeysFirstOnly(new_headers, keys_to_del) ==
    IF keys_to_del = <<>> THEN new_headers
    ELSE DictDel(new_headers, Head(keys_to_del))

\* new_headers = dict(headers); for k in keys_to_del: del new_headers[k]
RECURSIVE DelKeys(_, _)
DelKeys(new_headers, keys_to_del) ==
    IF keys_to_del = <<>> THEN new_headers
    ELSE DelKeys(DictDel(new_headers, Head(keys_to_del)), Tail(keys_to_del))

\* --------------------------------------------------------- check_other_uas
\* headers_copy = dict(headers); headers_copy['user-agent'] = ua
HeadersWithUA(headers, ua) == DictSet(headers, "user-agent", ua)

\* ----------------------------------------------------------- the baseline
\* mutant of BaselineDone: the loop is left after its first request
BaselineDoneEarly(responses) == Len(responses) >= 1

\* the loop of MINIMAL_RESP_CHECK_N requests has run to its end
BaselineDone(responses) == Len(responses) = MINIMAL_RESP_CHECK_N

\* min(ratios) of a non-empty list of fractions
RECURSIVE MinRatio(_)
MinRatio(ratios) ==
    IF Len(ratios) = 1 THEN ratios[1]
    ELSE LET m == MinRatio(Tail(ratios))
         IN  IF FracLess(m, ratios[1]) THEN m ELSE ratios[1]

\* mutant of Ratios: after the timed probe the first ratio is not recomputed
\* with length_ratio (line 207 missing)
RatiosKeepProbe(reference_resp, responses, slow) ==
    LET big == TextLen(responses[1].response.text) > SIZE_THRESHOLD
        fun == IF big THEN "length_ratio"
               ELSE IF slow THEN "length_ratio" ELSE "difflib_ratio"
        probe_ratio == IF big THEN length_ratio(reference_resp, responses[1])
                       ELSE difflib_ratio(reference_resp, responses[1])
    IN  [distance_fun |-> fun,
         used_difflib |-> ~big,
         ratios |-> <<probe_ratio>> \o
                    [i \in 1..(Len(responses) - 1) |->
                        Dist(fun, reference_resp, responses[i + 1])]]

\* The strategy choice and the list `ratios`.  slow: the timed probe took more
\* than 0.5 s.  used_difflib: difflib_ratio was called.
Ratios(reference_resp, responses, slow) ==
    LET big == TextLen(responses[1].response.text) > SIZE_THRESHOLD
        fun == IF big THEN "length_ratio"
               ELSE IF slow THEN "length_ratio" ELSE "difflib_ratio"
        probe_ratio == IF big THEN length_ratio(reference_resp, responses[1])
                       ELSE IF slow THEN length_ratio(reference_resp, responses[1])
                       ELSE difflib_ratio(reference_resp, responses[1])
    IN  [distance_fun |-> fun,
         used_difflib |-> ~big,
         ratios |-> <<probe_ratio>> \o
                    [i \in 1..(Len(responses) - 1) |->
                        Dist(fun, reference_resp, responses[i + 1])]]

AnyRaised(ratios) == \E i \in 1..Len(ratios) : Raised(ratios[i])


\* ------------------------------------------------------------------- state
VARIABLES
    pc,                     \* position in the program
    error,                  \* the exception that ended the run, or "none"
    headers,                \* req_json['headers']
    UAS,                    \* the module's catalog (edited in place)
    EXPECTED_TEXT_ANOMALY,  \* the module's policy flag
    expected_text,
    reference_resp,         \* ResponseResult(r, dict(headers))
    responses,              \* the repeated baseline responses
    distance_fun,
    reference_ratio,        \* in thousandths
    i,                      \* position of the running for loop
    acc,                    \* res and keys_to_del of the running function
    minimal_headers,
    del_anomalies,
    ua_anomalies,
    probes,                 \* the make_request calls of the running function
    budget,                 \* differing responses the endpoint may still give
    ratio_set,              \* history: [n, after]: assignments of reference_ratio,
                            \* and the baseline responses held at the last one
    strategy                \* history: [used_difflib, slow] of the strategy choice

vars == <<pc, error, headers, UAS, EXPECTED_TEXT_ANOMALY, expected_text,
          reference_resp, responses, distance_fun, reference_ratio, i, acc,
          minimal_headers, del_anomalies, ua_anomalies, probes, budget,
          ratio_set, strategy>>

NoAcc == [res |-> <<>>, keys_to_del |-> <<>>]

\* the response the endpoint gives to one request
Reply(ref, left) == {x \in Replies : x = ref \/ left > 0}
Spend(ref, x, left) == IF x = ref THEN left ELSE left - 1

Init ==
    /\ pc = "start"
    /\ error = "none"
    /\ headers \in InputHeaders
    /\ UAS = UAS0
    /\ EXPECTED_TEXT_ANOMALY = FALSE
    /\ expected_text = None
    /\ reference_resp = NoResult
    /\ responses = <<>>
    /\ distance_fun = "difflib_ratio"
    /\ reference_ratio = 0
    /\ i = 0
    /\ acc = NoAcc
    /\ minimal_headers = <<>>
    /\ del_anomalies = <<>>
    /\ ua_anomalies = <<>>
    /\ probes = <<>>
    /\ budget = MaxJitter
    /\ ratio_set = [n |-> 0, after |-> 0]
    /\ strategy = [used_difflib |-> FALSE, slow |-> FALSE]

\* lines 150-154: inject the default user-agent
AddDefaultUA ==
    /\ pc = "start"
    /\ IF "user-agent" \notin {lower(k) : k \in KeySet(headers)}
       THEN /\ headers' = DictSet(headers, "user-agent", Get(UAS, "modern ua"))
            /\ UAS' = DictDel(UAS, "modern ua")
       ELSE UNCHANGED <<headers, UAS>>
    /\ pc' = "input"
    /\ UNCHANGED <<error, EXPECTED_TEXT_ANOMALY, expected_text, reference_resp,
                   responses, distance_fun, reference_ratio, i, acc,
                   minimal_headers, del_anomalies, ua_anomalies, probes, budget,
                   ratio_set, strategy>>

\* line 160: expected_text = input(...) or None
ReadExpectedText ==
    /\ pc = "input"
    /\ \E typed \in TypedTexts :
          expected_text' = IF typed = <<>> THEN None ELSE Str(typed)
    /\ pc' = "request"
    /\ UNCHANGED <<error, headers, UAS, EXPECTED_TEXT_ANOMALY, reference_resp,
                   responses, distance_fun, reference_ratio, i, acc,
                   minimal_headers, del_anomalies, ua_anomalies, probes, budget,
                   ratio_set, strategy>>

\* lines 162-185: the reference request and the expected-text check.  answer is
\* what the user types at the 'Consider it like an anomaly' prompt.
ReferenceRequest ==
    /\ pc = "request"
    /\ \E r \in Replies, answer \in {"y", "n"} :
          IF expected_text.none
          THEN \* `not expected_text in r.text` with expected_text None
               /\ pc' = "crashed"
               /\ error' = "TypeError"
               /\ UNCHANGED <<reference_resp, distance_fun>>
          ELSE IF ~Contains(r.text, expected_text.text) /\ answer = "n"
          THEN \* the invalid response is saved, sys.exit(0)
               /\ pc' = "invalid"
               /\ UNCHANGED <<error, reference_resp, distance_fun>>
          ELSE /\ pc' = "baseline"
               /\ reference_resp' = ResponseResult(r, headers)
               /\ distance_fun' = "difflib_ratio"
               /\ UNCHANGED error
    /\ UNCHANGED <<headers, UAS, EXPECTED_TEXT_ANOMALY, expected_text, responses,
                   reference_ratio, i, acc, minimal_headers, del_anomalies,
                   ua_anomalies, probes, budget, ratio_set, strategy>>

\* lines 189-191: one repeated request
BaselineRequest ==
    /\ pc = "baseline"
    /\ ~BaselineDone(responses)
    /\ \E rr \in Reply(reference_resp.response, budget) :
          /\ responses' = Append(responses, ResponseResult(rr, headers))
          /\ budget' = Spend(reference_resp.response, rr, budget)
    /\ UNCHANGED <<pc, error, headers, UAS, EXPECTED_TEXT_ANOMALY, expected_text,
                   reference_resp, distance_fun, reference_ratio, i, acc,
                   minimal_headers, del_anomalies, ua_anomalies, probes,
                   ratio_set, strategy>>

\* lines 193-214: the strategy choice and the reference ratio
ComputeThreshold ==
    /\ pc = "baseline"
    /\ BaselineDone(responses)
    /\ \E slow \in BOOLEAN :
         LET b == Ratios(reference_resp, responses, slow)
         IN  /\ distance_fun' = b.distance_fun
             /\ strategy' = [used_difflib |-> b.used_difflib,
                             slow |-> b.used_difflib /\ slow]
             /\ IF AnyRaised(b.ratios)
                THEN /\ pc' = "crashed"
                     /\ error' = "ZeroDivisionError"
                     /\ UNCHANGED <<reference_ratio, ratio_set>>
                ELSE /\ pc' = "threshold"
                     /\ reference_ratio' = Round3(MinRatio(b.ratios))
                     /\ ratio_set' = [n |-> ratio_set.n + 1, after |-> Len(responses)]
                     /\ UNCHANGED error
    /\ UNCHANGED <<headers, UAS, EXPECTED_TEXT_ANOMALY, expected_text,
                   reference_resp, responses, i, acc, minimal_headers,
                   del_anomalies, ua_anomalies, probes, budget>>

\* lines 216-223 and 108-111: check_removed_headers is entered.  `responses` is
\* not read again and is dropped from the state here.
CallCheckRemovedHeaders ==
    /\ pc = "threshold"
    /\ pc' = "remove"
    /\ i' = 1
    /\ acc' = NoAcc
    /\ probes' = <<>>
    /\ responses' = <<>>
    /\ UNCHANGED <<error, headers, UAS, EXPECTED_TEXT_ANOMALY, expected_text,
                   reference_resp, distance_fun, reference_ratio, minimal_headers,
                   del_anomalies, ua_anomalies, budget, ratio_set, strategy>>

\* lines 113-121: one pass of the loop over the keys
RemoveHeaderProbe ==
    /\ pc = "remove"
    /\ i <= Len(headers)
    /\ \E r \in Replies :
         LET key == Keys(headers)[i]
             p == make_request(r, distance_fun, HeadersWithout(headers, key),
                               reference_ratio, reference_resp, expected_text, key,
                               EXPECTED_TEXT_ANOMALY)
         IN  /\ probes' = Append(probes, p)
             /\ IF p.raised
                THEN /\ pc' = "crashed"
                     /\ error' = "ZeroDivisionError"
                     /\ UNCHANGED <<i, acc>>
                ELSE /\ acc' = RecordRemoval(acc, key, p.is_anomaly, p.data)
                     /\ i' = i + 1
                     /\ UNCHANGED <<pc, error>>
    /\ UNCHANGED <<headers, UAS, EXPECTED_TEXT_ANOMALY, expected_text,
                   reference_resp, responses, distance_fun, reference_ratio,
                   minimal_headers, del_anomalies, ua_anomalies, budget,
                   ratio_set, strategy>>

\* lines 123-127 and 221-227: the return, and the exit when nothing was removed
RemoveHeadersReturn ==
    /\ pc = "remove"
    /\ i > Len(headers)
    /\ minimal_headers' = DelKeys(headers, acc.keys_to_del)
    /\ del_anomalies' = acc.res
    /\ pc' = IF Len(DelKeys(headers, acc.keys_to_del)) = Len(headers)
             THEN "exit" ELSE "removed"
    /\ UNCHANGED <<error, headers, UAS, EXPECTED_TEXT_ANOMALY, expected_text,
                   reference_resp, responses, distance_fun, reference_ratio, i,
                   acc, ua_anomalies, probes, budget, ratio_set, strategy>>

\* lines 229-249 and 92: the results are printed and saved, check_other_uas is
\* entered.  The results of check_removed_headers are not read again and are
\* dropped from the state here.
CallCheckOtherUAs ==
    /\ pc = "removed"
    /\ pc' = "uas"
    /\ i' = 1
    /\ acc' = NoAcc
    /\ probes' = <<>>
    /\ minimal_headers' = <<>>
    /\ del_anomalies' = <<>>
    /\ budget' = MaxBlocked
    /\ UNCHANGED <<error, headers, UAS, EXPECTED_TEXT_ANOMALY, expected_text,
                   reference_resp, responses, distance_fun, reference_ratio,
                   ua_anomalies, ratio_set, strategy>>

\* lines 94-102: one pass of the loop over the catalog
OtherUAProbe ==
    /\ pc = "uas"
    /\ i <= Len(UAS)
    /\ \E r \in Reply(reference_resp.response, budget) :
         LET ua_name == UAS[i][1]
             ua == UAS[i][2]
             p == make_request(r, distance_fun, HeadersWithUA(headers, ua),
                               reference_ratio, reference_resp, expected_text,
                               ua_name, EXPECTED_TEXT_ANOMALY)
         IN  /\ probes' = Append(probes, p)
             /\ budget' = Spend(reference_resp.response, r, budget)
             /\ IF p.raised
                THEN /\ pc' = "crashed"
                     /\ error' = "ZeroDivisionError"
                     /\ UNCHANGED <<i, acc>>
                ELSE /\ acc' = IF p.is_anomaly
                               THEN [acc EXCEPT !.res = DictSet(acc.res, ua_name,
                                                                <<ua, p.data>>)]
                               ELSE acc
                     /\ i' = i + 1
                     /\ UNCHANGED <<pc, error>>
    /\ UNCHANGED <<headers, UAS, EXPECTED_TEXT_ANOMALY, expected_text,
                   reference_resp, responses, distance_fun, reference_ratio,
                   minimal_headers, del_anomalies, ua_anomalies, ratio_set,
                   strategy>>

\* lines 104 and 247-251: the return
OtherUAsReturn ==
    /\ pc = "uas"
    /\ i > Len(UAS)
    /\ ua_anomalies' = acc.res
    /\ pc' = "done"
    /\ UNCHANGED <<error, headers, UAS, EXPECTED_TEXT_ANOMALY, expected_text,
                   reference_resp, responses, distance_fun, reference_ratio, i,
                   acc, minimal_headers, del_anomalies, probes, budget,
                   ratio_set, strategy>>

Next ==
    \/ AddDefaultUA
    \/ ReadExpectedText
    \/ ReferenceRequest
    \/ BaselineRequest
    \/ ComputeThreshold
    \/ CallCheckRemovedHeaders
    \/ RemoveHeaderProbe
    \/ RemoveHeadersReturn
    \/ CallCheckOtherUAs
    \/ OtherUAProbe
    \/ OtherUAsReturn

\* A run of the program.
Spec == Init /\ [][Next]_vars

\* ------------------------------------------- check_removed_headers on its own
\* the header sets check_removed_headers is called with (after lines 150-154)
CalledHeaders ==
    {IF "user-agent" \notin {lower(k) : k \in KeySet(h)}
     THEN DictSet(h, "user-agent", Get(UAS0, "modern ua")) ELSE h : h \in InputHeaders}

\* reference ratios (thousandths) the function is called with
CalledRatios == {0, 500, 667, 1000}

InitRemove ==
    /\ pc = "remove"
    /\ error = "none"
    /\ headers \in CalledHeaders
    /\ UAS = UAS0
    /\ EXPECTED_TEXT_ANOMALY \in BOOLEAN
    /\ expected_text \in {None, Str(<<"a">>)}
    /\ reference_resp \in {ResponseResult(r, headers) : r \in Replies}
    /\ responses = <<>>
    /\ distance_fun \in {"difflib_ratio", "length_ratio"}
    /\ reference_ratio \in CalledRatios
    /\ i = 1
    /\ acc = NoAcc
    /\ minimal_headers = <<>>
    /\ del_anomalies = <<>>
    /\ ua_anomalies = <<>>
    /\ probes = <<>>
    /\ budget = 0
    /\ ratio_set = [n |-> 1, after |-> MINIMAL_RESP_CHECK_N]
    /\ strategy = [used_difflib |-> FALSE, slow |-> FALSE]

NextRemove == RemoveHeaderProbe \/ RemoveHeadersReturn

\* check_removed_headers called with any arguments and either policy setting.
SpecRemove == InitRemove /\ [][NextRemove]_vars
\* ------------------------------------------------------------------ claims
ProbeIdx == 1..Len(probes)
Returned == pc \in {"removed", "exit"}
RefText == reference_resp.response.text
Removable == {probes[k].key : k \in {j \in ProbeIdx : ~probes[j].raised /\ ~probes[j].is_anomaly}}

\* C1: the flag make_request returns equals (similarity < threshold) OR
\* (expected text configured AND not in the body AND the policy is on), for
\* either policy setting and with or without an expected text.
C1_AnomalyFlag ==
    \A k \in ProbeIdx :
        ~probes[k].raised =>
            probes[k].is_anomaly =
                (\/ probes[k].data.diff < probes[k].ratio
                 \/ /\ Truthy(expected_text)
                    /\ ~Contains(probes[k].r.text, expected_text.text)
                    /\ EXPECTED_TEXT_ANOMALY)

\* C2: the reference ratio is assigned at most once, only when all
\* MINIMAL_RESP_CHECK_N baseline responses are in and no probe was made, every
\* probe of both phases is classified against it, and no later step changes it.
C2_AssignedOnce ==
    /\ ratio_set.n <= 1
    /\ ratio_set.n = 1 => ratio_set.after = MINIMAL_RESP_CHECK_N
    /\ pc \in {"start", "input", "request", "baseline"} =>
          ratio_set.n = 0 /\ probes = <<>>
    /\ probes # <<>> => ratio_set.n = 1
    /\ \A k \in ProbeIdx : probes[k].ratio = reference_ratio

C2_ThresholdOnce ==
    /\ []C2_AssignedOnce
    /\ [][ratio_set.n = 1 => reference_ratio' = reference_ratio]_vars

C2_Witness ==
    /\ pc = "done"
    /\ ratio_set.n = 1
    /\ Len(probes) = Len(UAS)
    /\ ua_anomalies # <<>>

\* C3: after line 214 the reference ratio is the minimum over all
\* MINIMAL_RESP_CHECK_N samples of the similarity to the reference, each computed
\* with the strategy finally selected, rounded to DIST_ROUND_PRECISION digits.
C3_ThresholdIsMin ==
    pc = "threshold" =>
        /\ Len(responses) = MINIMAL_RESP_CHECK_N
        /\ \E j \in 1..Len(responses) :
              LET least == Dist(distance_fun, reference_resp, responses[j])
              IN  /\ ~Raised(least)
                  /\ \A k \in 1..Len(responses) :
                        ~FracLess(Dist(distance_fun, reference_resp, responses[k]), least)
                  /\ reference_ratio = Round3(least)

C3_Witness ==
    /\ pc = "threshold"
    /\ strategy.slow
    /\ distance_fun = "length_ratio"
    /\ reference_ratio = 500

\* C4 (as claimed): every header reported removable had an (unrounded)
\* similarity of its probe >= the reference ratio.
C4_RawSoundness ==
    \A k \in ProbeIdx :
        (~probes[k].raised /\ probes[k].key \in Removable) =>
            probes[k].raw.n * Pow10(DIST_ROUND_PRECISION) >= probes[k].ratio * probes[k].raw.d

\* C4 (amended): every header that check_removed_headers leaves out of the
\* returned header set had a probe whose similarity, rounded to
\* DIST_ROUND_PRECISION digits, was >= the reference ratio.
C4_RoundedSoundness ==
    /\ \A n \in 1..Len(acc.keys_to_del) :
          \E k \in ProbeIdx : /\ probes[k].key = acc.keys_to_del[n]
                              /\ ~probes[k].raised
                              /\ probes[k].data.diff >= probes[k].ratio
    /\ Returned =>
          \A h \in KeySet(headers) \ KeySet(minimal_headers) :
              \E k \in ProbeIdx : /\ probes[k].key = h
                                  /\ ~probes[k].raised
                                  /\ probes[k].data.diff >= reference_ratio

C4_Witness ==
    /\ pc = "removed"
    /\ \E k \in ProbeIdx :
          /\ probes[k].key \notin KeySet(minimal_headers)
          /\ probes[k].r # reference_resp.response
          /\ probes[k].data.diff < Pow10(DIST_ROUND_PRECISION)

C6_OneUserAgent ==
    pc \in {"uas", "done"} =>
        \A k \in ProbeIdx :
            LET sent == probes[k].headers
                uaAt == {n \in 1..Len(sent) : lower(sent[n][1]) = "user-agent"}
            IN  /\ Cardinality(uaAt) = 1
                /\ \A n \in uaAt : sent[n][2] = UAS[k][2]
                /\ {sent[n] : n \in (1..Len(sent)) \ uaAt}
                     = {headers[n] : n \in {m \in 1..Len(headers) :
                                               lower(headers[m][1]) # "user-agent"}}

\* C7: with no expected text the run does not fail.
C7_NoExpectedTextRuns ==
    (pc \notin {"start", "input"} /\ expected_text.none) => error = "none"

\* C8: length_ratio(a, a) and difflib_ratio(a, a) are exactly 1.0 for every
\* snapshot a, the empty one included.
C8_Identity ==
    \A k \in ProbeIdx :
        \A fun \in {"length_ratio", "difflib_ratio"} :
            LET q == Dist(fun, probes[k].data.resp, probes[k].data.resp)
            IN  ~Raised(q) /\ q.n = q.d

\* C9: check_removed_headers makes one probe per header, in insertion order,
\* each with the full original header set minus that one header, and leaves the
\* caller's headers as they were.
C9_ProbeLog ==
    /\ Len(probes) = IF pc = "crashed" THEN i ELSE i - 1
    /\ Returned => Len(probes) = Len(headers)
    /\ \A k \in ProbeIdx :
          /\ probes[k].key = headers[k][1]
          /\ probes[k].headers = Filter(headers, KeySet(headers) \ {headers[k][1]})
          /\ probes[k].data.resp.req_headers = probes[k].headers

C9_IndependentProbes ==
    /\ []C9_ProbeLog
    /\ [][headers' = headers]_vars

C9_Witness ==
    /\ pc = "removed"
    /\ Len(probes) = 3
    /\ headers[1][1] \in Removable
    /\ headers[1][1] \in KeySet(probes[2].headers)

\* C10: a reference text longer than SIZE_THRESHOLD selects length_ratio without
\* difflib_ratio being called, whatever the samples are; otherwise
\* difflib_ratio is kept unless the timed probe was too slow.
C10_StrategyByReference ==
    pc = "threshold" =>
        IF TextLen(RefText) > SIZE_THRESHOLD
        THEN distance_fun = "length_ratio" /\ ~strategy.used_difflib
        ELSE ~strategy.slow => distance_fun = "difflib_ratio"
====
